---- MODULE Spec2Model ----
(***************************************************************************)
(* corinfo.h: corinfo_GetInfo and its helpers, in both platform variants   *)
(* (__linux and _WIN32).  One call of corinfo_GetInfo is a run through the *)
(* program counter pc from "check_null" to "returned"; the host (platform, *)
(* processor, /proc/cpuinfo contents) is fixed by Init, and every answer   *)
(* of the operating system is drawn when the call that asks for it is made.*)
(***************************************************************************)
EXTENDS Integers, Sequences, FiniteSets, TLC

(***************************************************************************)
(* Bounds of the model.                                                    *)
(***************************************************************************)
\* Number of corinfo_GetInfo calls one behaviour makes.
MaxCalls == 2
\* Number of lines of the /proc/cpuinfo contents.
MaxLines == 2

(***************************************************************************)
(* Integer helpers: C's >> and & on a 32-bit int.                          *)
(***************************************************************************)
RECURSIVE Pow2(_)
Pow2(n) == IF n = 0 THEN 1 ELSE 2 * Pow2(n - 1)

\* x >> k on a signed int (arithmetic shift: gcc and MSVC)
Shr(x, k) == x \div Pow2(k)

\* x & 0xFF
AndFF(x) == x % 256

\* x & 0x1
And1(x) == x % 2

(***************************************************************************)
(* The processor: the answer of the cpuid instruction to each input code,  *)
(* as four registers (eax, ebx, ecx, edx) of four bytes each, lowest byte  *)
(* first.                                                                  *)
(***************************************************************************)
\* int commands[3] = { 0x80000002, 0x80000003, 0x80000004 } as int values
commands == << -2147483646, -2147483645, -2147483644 >>

\* the input code of the vendor query
CPUID_VENDOR == 0

\* the input code of the feature query
CPUID_FEATURES == 1

Leaves == {CPUID_VENDOR, CPUID_FEATURES, commands[1], commands[2], commands[3]}

\* "GenuineIntel"
GenuineIntel == <<71, 101, 110, 117, 105, 110, 101, 73, 110, 116, 101, 108>>

\* "AuthenticAMD"
AuthenticAMD == <<65, 117, 116, 104, 101, 110, 116, 105, 99, 65, 77, 68>>

\* a vendor tag whose bytes have the top bit set (registers read as negative ints)
HighVendor == <<128, 255, 200, 129, 1, 2, 3, 254, 250, 0, 127, 240>>

ZeroReg == <<0, 0, 0, 0>>
OnesReg == <<255, 255, 255, 255>>

\* a register with only bit k (0..31) set
OneBit(k) == [j \in 1..4 |-> IF j = (k \div 8) + 1 THEN Pow2(k % 8) ELSE 0]

\* bit k (0..31) of a register
Bit(reg, k) == (reg[(k \div 8) + 1] \div Pow2(k % 8)) % 2

\* the seven feature bits of leaf 1: ecx 0, 19, 20, 28 and edx 23, 25, 26
EcxFeatureBits == {0, 19, 20, 28}
EdxFeatureBits == {23, 25, 26}

\* a register with every bit set except those of bits
AllBut(bits) ==
  [j \in 1..4 |->
     255 - ( (IF 8 * (j - 1) + 0 \in bits THEN 1 ELSE 0)
           + (IF 8 * (j - 1) + 1 \in bits THEN 2 ELSE 0)
           + (IF 8 * (j - 1) + 2 \in bits THEN 4 ELSE 0)
           + (IF 8 * (j - 1) + 3 \in bits THEN 8 ELSE 0)
           + (IF 8 * (j - 1) + 4 \in bits THEN 16 ELSE 0)
           + (IF 8 * (j - 1) + 5 \in bits THEN 32 ELSE 0)
           + (IF 8 * (j - 1) + 6 \in bits THEN 64 ELSE 0)
           + (IF 8 * (j - 1) + 7 \in bits THEN 128 ELSE 0) )]

\* A processor: vendor tag (ebx, edx, ecx of leaf 0), brand bytes
\* brandBase .. brandBase + 47 over leaves 0x80000002..4, and the feature
\* registers ecx, edx of leaf 1.
MkProcessor(vendor, brandBase, ecx, edx) ==
  [l \in Leaves |->
     IF l = CPUID_VENDOR
       THEN << <<22, 0, 0, 0>>, SubSeq(vendor, 1, 4), SubSeq(vendor, 9, 12),
               SubSeq(vendor, 5, 8) >>
     ELSE IF l = CPUID_FEATURES
       THEN << <<234, 6, 9, 0>>, <<0, 8, 16, 4>>, ecx, edx >>
     ELSE LET i == CHOOSE n \in 1..3 : commands[n] = l
          IN  [r \in 1..4 |->
                 [j \in 1..4 |-> brandBase + 16 * (i - 1) + 4 * (r - 1) + (j - 1)]]]

\* Processors with different vendor tags, brand strings and feature sets.
BaseProcessors ==
  { MkProcessor(GenuineIntel, 32, <<1, 0, 24, 16>>, <<0, 0, 128, 6>>),
    MkProcessor(AuthenticAMD, 208, ZeroReg, <<255, 255, 127, 249>>),
    MkProcessor(HighVendor, 120, OnesReg, OnesReg) }

\* Processors that differ only in the answer to leaf 1: one bit set in ecx
\* or in edx, for each of the 32 bits, and the seven feature bits alone clear.
FeatureProcessors ==
     { MkProcessor(GenuineIntel, 32, OneBit(k), ZeroReg) : k \in 0..31 }
  \cup { MkProcessor(GenuineIntel, 32, ZeroReg, OneBit(k)) : k \in 0..31 }
  \cup { MkProcessor(GenuineIntel, 32, AllBut(EcxFeatureBits), AllBut(EdxFeatureBits)),
         MkProcessor(GenuineIntel, 32, ZeroReg, ZeroReg) }

\* The int a register holds: its four bytes, lowest first, as a two's
\* complement 32-bit value.
Word(reg) ==
  reg[1] + 256 * reg[2] + 65536 * reg[3]
    + 16777216 * (IF reg[4] >= 128 THEN reg[4] - 256 ELSE reg[4])

(***************************************************************************)
(* Single-precision arithmetic of                                          *)
(*   info->RamUsage = 100 - (info->RamFree / (float)info->RamSize) * 100;  *)
(* A non-negative float is <<m, e>>, the value m * 2^e with                *)
(* 2^23 <= m < 2^24, or <<0, 0>>.  Every operation rounds to nearest,      *)
(* ties to even.                                                           *)
(***************************************************************************)
RECURSIVE GCD(_, _)
GCD(a, b) == IF b = 0 THEN a ELSE GCD(b, a % b)

\* n / d rounded to the nearest integer, ties to even (n >= 0, d > 0)
RoundDiv(n, d) ==
  LET q == n \div d
      r == n % d
  IN  IF 2 * r < d THEN q
      ELSE IF 2 * r > d THEN q + 1
      ELSE IF q % 2 = 0 THEN q ELSE q + 1

\* the float nearest to (n / d) * 2^e (n >= 0, d > 0)
RECURSIVE F32Round(_, _, _)
F32Round(n, d, e) ==
  IF n = 0 THEN <<0, 0>>
  ELSE IF n \div d < 8388608 THEN F32Round(2 * n, d, e - 1)
  ELSE IF n \div d >= 16777216 THEN F32Round(n, 2 * d, e + 1)
  ELSE LET m == RoundDiv(n, d)
       IN  IF m = 16777216 THEN <<8388608, e + 1>> ELSE <<m, e>>

\* (float)n of a uint32_t
F32OfU32(n) == F32Round(n, 1, 0)

\* the exponent of 2 in n > 0
RECURSIVE TwoExp(_)
TwoExp(n) == IF n % 2 = 1 THEN 0 ELSE 1 + TwoExp(n \div 2)

\* x / y in float, y # 0: the quotient of the mantissas in lowest terms
F32Div(x, y) ==
  IF x[1] = 0 THEN <<0, 0>>
  ELSE LET a == TwoExp(x[1])
           b == TwoExp(y[1])
           n == x[1] \div Pow2(a)
           d == y[1] \div Pow2(b)
           g == GCD(n, d)
       IN  F32Round(n \div g, d \div g, (x[2] + a) - (y[2] + b))

\* x * 100 in float
F32Mul100(x) == F32Round(x[1] * 100, 1, x[2])

\* 100 - x in float, as <<sign, float>>; x = 0 or 0.5 <= x < 2^24
F32Sub100(x) ==
  IF x[1] = 0 THEN <<1, F32OfU32(100)>>
  ELSE LET n == 100 * Pow2(0 - x[2]) - x[1]
       IN  IF n >= 0 THEN <<1, F32Round(n, 1, x[2])>>
                     ELSE <<-1, F32Round(0 - n, 1, x[2])>>

\* the integral part of a non-negative float
F32Trunc(x) ==
  IF x[2] >= 0 THEN x[1] * Pow2(x[2])
  ELSE IF x[2] < -24 THEN 0
  ELSE x[1] \div Pow2(0 - x[2])

\* Values a uint32_t may hold after a conversion whose behaviour is
\* undefined or after a read of an uninitialised variable (a sample of them).
UndefinedU32 == {0, 97, 101, 2147483647}

\* The values info->RamUsage can get from line 148.  With RamSize = 0 the
\* quotient is an infinity or a NaN, and with 100 - x * 100 <= -1 the value
\* is outside the range of uint32_t: the conversion is undefined behaviour.
RamUsageOf(RamFree, RamSize) ==
  IF RamSize = 0 THEN UndefinedU32
  ELSE LET r == F32Sub100(F32Mul100(F32Div(F32OfU32(RamFree), F32OfU32(RamSize))))
       IN  IF r[1] = 1 THEN {F32Trunc(r[2])}
           ELSE IF F32Trunc(r[2]) = 0 THEN {0}
           ELSE UndefinedU32

(***************************************************************************)
(* The operating system's answers.                                         *)
(***************************************************************************)
\* An unsigned 64-bit byte count is <<g, r>>: g * 2^30 + r bytes, r < 2^30.
\* (uint32_t)(x / 1024): the count of KB, truncated to 32 bits.
KB32(x) == (x[1] % 4096) * 1048576 + (x[2] \div 1024)

\* What sysinfo() reports on success (totalram, freeram): 8 GiB with 2 GiB
\* free, with none free and with all free, 100 GiB with 60 GiB free, and
\* two hosts with 4 TiB or more, whose KB count does not fit 32 bits.
SysinfoReports ==
  { [totalram |-> <<8, 0>>,    freeram |-> <<2, 0>>],
    [totalram |-> <<8, 0>>,    freeram |-> <<0, 0>>],
    [totalram |-> <<8, 0>>,    freeram |-> <<8, 0>>],
    [totalram |-> <<100, 0>>,  freeram |-> <<60, 0>>],
    [totalram |-> <<4097, 0>>, freeram |-> <<2, 0>>],
    [totalram |-> <<4096, 0>>, freeram |-> <<1, 0>>] }

\* What GlobalMemoryStatusEx() writes on success.
MemoryStatusReports ==
  { [ullTotalPhys |-> <<8, 0>>,    ullAvailPhys |-> <<2, 0>>, dwMemoryLoad |-> 75],
    [ullTotalPhys |-> <<4097, 0>>, ullAvailPhys |-> <<2, 0>>, dwMemoryLoad |-> 99] }

\* MEMORYSTATUSEX mem as declared and never written (the call failed and
\* its result is not looked at): whatever the stack held.
UnwrittenMem ==
  [ullTotalPhys |-> <<3, 5120>>, ullAvailPhys |-> <<7, 1024>>, dwMemoryLoad |-> 2147483647]

\* Numbers of processors the system reports.
NProcs == {1, 4}

\* Values of the registry's ~MHz.
RegistryMHz == {2400, 3600}

\* DWORD dwMHz = _MAX_PATH
MAX_PATH == 260

\* RegOpenKeyEx results: ERROR_SUCCESS, ERROR_FILE_NOT_FOUND, ERROR_ACCESS_DENIED
ERROR_SUCCESS == 0
RegOpenResults == {ERROR_SUCCESS, 2, 5}

(***************************************************************************)
(* /proc/cpuinfo: a sequence of lines, each a sequence of characters.      *)
(***************************************************************************)
\* "cpu MHz"
Marker == <<"c", "p", "u", " ", "M", "H", "z">>

\* "cpu family\t: 6\n"
CpuFamilyLine ==
  <<"c", "p", "u", " ", "f", "a", "m", "i", "l", "y", "\t", ":", " ", "6", "\n">>

\* "cpu MHz\t\t: 2400.000\n"
MHzLine2400 ==
  Marker \o <<"\t", "\t", ":", " ", "2", "4", "0", "0", ".", "0", "0", "0", "\n">>

\* "cpu MHz\t\t: 800.123\n"
MHzLine800 ==
  Marker \o <<"\t", "\t", ":", " ", "8", "0", "0", ".", "1", "2", "3", "\n">>

Lines == {CpuFamilyLine, MHzLine2400, MHzLine800}

\* the contents /proc/cpuinfo can have: up to MaxLines lines
CpuinfoFiles == UNION { [1..n -> Lines] : n \in 0..MaxLines }

\* memcmp(line, "cpu MHz", 7) == 0
memcmp_marker(line) == Len(line) >= 7 /\ SubSeq(line, 1, 7) = Marker

\* strchr(line, c): the index of the first c in line, 0 if there is none
strchr(line, c) ==
  IF \E k \in 1..Len(line) : line[k] = c
    THEN CHOOSE k \in 1..Len(line) : line[k] = c /\ \A h \in 1..(k - 1) : line[h] # c
    ELSE 0

Digits == {"0", "1", "2", "3", "4", "5", "6", "7", "8", "9"}

DigitValue(c) ==
  CASE c = "0" -> 0 [] c = "1" -> 1 [] c = "2" -> 2 [] c = "3" -> 3 [] c = "4" -> 4
    [] c = "5" -> 5 [] c = "6" -> 6 [] c = "7" -> 7 [] c = "8" -> 8 [] c = "9" -> 9

\* the digits of atoi: the value of the leading digits of s after acc
RECURSIVE atoi_digits(_, _)
atoi_digits(s, acc) ==
  IF s = <<>> \/ Head(s) \notin Digits THEN acc
  ELSE atoi_digits(Tail(s), 10 * acc + DigitValue(Head(s)))

\* atoi(s): white space, an optional sign, digits
RECURSIVE atoi(_)
atoi(s) ==
  IF s = <<>> THEN 0
  ELSE IF Head(s) \in {" ", "\t", "\n"} THEN atoi(Tail(s))
  ELSE IF Head(s) = "-" THEN 0 - atoi_digits(Tail(s), 0)
  ELSE IF Head(s) = "+" THEN atoi_digits(Tail(s), 0)
  ELSE atoi_digits(s, 0)

\* MHz = atoi(strchr(line, ':') + 2): the values MHz can get.  Without a
\* colon strchr returns NULL and the read through NULL + 2 is undefined.
ParseMHz(line) ==
  LET k == strchr(line, ":")
  IN  IF k = 0 THEN UndefinedU32
      ELSE {atoi(SubSeq(line, k + 2, Len(line)))}

(***************************************************************************)
(* struct corinfo and the decoders.                                        *)
(***************************************************************************)
\* C's string[k] = v on a byte array held as a sequence
Store(string, k, v) == [string EXCEPT ![k + 1] = v]

Zeros(n) == [k \in 1..n |-> 0]

\* a struct corinfo that was declared and never written
StaleInfo ==
  [CpuCount |-> 7, CpuFrequency |-> 1234,
   VendorString |-> [k \in 1..12 |-> 170], BrandString |-> [k \in 1..48 |-> 85],
   MMX |-> 1, SSE |-> 204, SSE2 |-> 1, SSE3 |-> 3, SSE41 |-> 1, SSE42 |-> 255, AVX |-> 1,
   RamSize |-> 99, RamFree |-> 98, RamUsage |-> 250]

\* void __null_corinfo(struct corinfo* info)
null_corinfo(inf) ==
  [inf EXCEPT !.CpuCount = 0, !.CpuFrequency = 0,
              !.VendorString = Zeros(12), !.BrandString = Zeros(48),
              !.MMX = 0, !.SSE = 0, !.SSE2 = 0, !.SSE3 = 0,
              !.SSE41 = 0, !.SSE42 = 0, !.AVX = 0,
              !.RamSize = 0, !.RamFree = 0, !.RamUsage = 0]

\* the loop of __vendor_string from index n on
RECURSIVE vendor_loop(_, _, _)
vendor_loop(c, string, n) ==
  IF n >= 4 THEN string
  ELSE vendor_loop(c,
         Store(Store(Store(string,
           n + 0, AndFF(Shr(c[2], n * 8))),
           n + 4, AndFF(Shr(c[4], n * 8))),
           n + 8, AndFF(Shr(c[3], n * 8))),
         n + 1)

\* __vendor_string with the registers taken in the order ebx, ecx, edx
vendor_string_in_register_order(c, string) ==
  [k \in 1..12 |-> AndFF(Shr(c[2 + ((k - 1) \div 4)], ((k - 1) % 4) * 8))]

\* void __vendor_string(int cpu[4], uint8_t* string)
vendor_string(c, string) == vendor_loop(c, string, 0)

\* the inner loop of __brand_string from index j on
RECURSIVE brand_loop(_, _, _, _)
brand_loop(c, string, off, j) ==
  IF j >= 4 THEN string
  ELSE brand_loop(c,
         Store(Store(Store(Store(string,
           off + j + 0,  AndFF(Shr(c[1], j * 8))),
           off + j + 4,  AndFF(Shr(c[2], j * 8))),
           off + j + 8,  AndFF(Shr(c[3], j * 8))),
           off + j + 12, AndFF(Shr(c[4], j * 8))),
         off, j + 1)

\* one turn of the outer loop of __brand_string: the 16 bytes of one answer
brand_block(c, string, off) == brand_loop(c, string, off, 0)

\* offset += 12: the step of the vendor string's three registers
brand_next_offset_12(off) == off + 12

\* offset += 16
brand_next_offset(off) == off + 16

\* __extensions reading SSE from bit 24 (FXSR) of edx
extensions_sse_bit_24(c, inf) ==
  [inf EXCEPT !.MMX   = And1(Shr(c[4], 23)),
              !.SSE   = And1(Shr(c[4], 24)),
              !.SSE2  = And1(Shr(c[4], 26)),
              !.SSE3  = And1(Shr(c[3], 0)),
              !.SSE41 = And1(Shr(c[3], 19)),
              !.SSE42 = And1(Shr(c[3], 20)),
              !.AVX   = And1(Shr(c[3], 28))]

\* void __extensions(int cpu[4], struct corinfo* info), after its __cpuid
extensions(c, inf) ==
  [inf EXCEPT !.MMX   = And1(Shr(c[4], 23)),
              !.SSE   = And1(Shr(c[4], 25)),
              !.SSE2  = And1(Shr(c[4], 26)),
              !.SSE3  = And1(Shr(c[3], 0)),
              !.SSE41 = And1(Shr(c[3], 19)),
              !.SSE42 = And1(Shr(c[3], 20)),
              !.AVX   = And1(Shr(c[3], 28))]

(***************************************************************************)
(* State.                                                                  *)
(***************************************************************************)
VARIABLES
  platform,   \* "linux" or "win32": the variant that was compiled
  processor,  \* the processor's answers to cpuid
  cpuinfo,    \* the contents of /proc/cpuinfo
  calls,      \* number of corinfo_GetInfo calls made so far
  pc,         \* the statement corinfo_GetInfo is at, "idle" between calls
  target,     \* the argument info: "NULL" or "info", the caller's struct
  info,       \* the caller's struct corinfo
  cpu,        \* int cpu[4]
  i,          \* the loop index of __brand_string
  offset,     \* int offset of __brand_string
  sys,        \* struct sysinfo sys (linux), SYSTEM_INFO sys (win32)
  mem,        \* MEMORYSTATUSEX mem
  f,          \* FILE* f: whether it is open and the next line getline reads
  MHz,        \* size_t MHz (linux), DWORD dwMHz (win32)
  handles,    \* number of handles the process holds open (streams, keys)
  ret,        \* what the last call returned
  work        \* what the call has done so far: a sequence of <<name, value>>

vars == <<platform, processor, cpuinfo, calls, pc, target, info, cpu, i, offset,
          sys, mem, f, MHz, handles, ret, work>>

host == <<platform, processor, cpuinfo>>

\* locals that are not in scope
NoCpu == <<0, 0, 0, 0>>
NoSys == [totalram |-> <<0, 0>>, freeram |-> <<0, 0>>, dwNumberOfProcessors |-> 0]
NoMem == [ullTotalPhys |-> <<0, 0>>, ullAvailPhys |-> <<0, 0>>, dwMemoryLoad |-> 0]
NoFile == [open |-> FALSE, line |-> 0]

\* Hosts with each /proc/cpuinfo contents, and hosts with each feature set.
Hosts ==
       { <<"linux", p, c>> : p \in BaseProcessors, c \in CpuinfoFiles }
  \cup { <<"win32", p, <<>>>> : p \in BaseProcessors }
  \cup { <<"linux", p, <<MHzLine2400>>>> : p \in FeatureProcessors }
  \cup { <<"win32", p, <<>>>> : p \in FeatureProcessors }

Init ==
  /\ \E h \in Hosts :
       /\ platform = h[1]
       /\ processor = h[2]
       /\ cpuinfo = h[3]
  /\ calls = 0
  /\ pc = "idle"
  /\ target = "NULL"
  /\ info = StaleInfo
  /\ cpu = NoCpu
  /\ i = 0
  /\ offset = 0
  /\ sys = NoSys
  /\ mem = NoMem
  /\ f = NoFile
  /\ MHz = 0
  /\ handles = 0
  /\ ret = 0
  /\ work = <<>>

\* the call did name, which gave value
Did(name, value) == work' = Append(work, <<name, value>>)

\* the __cpuid macro: the four registers into cpu[0..3]
cpuid(command) == [r \in 1..4 |-> Word(processor[command][r])]

\* return value: the locals go out of scope
Return(value) ==
  /\ ret' = value
  /\ pc' = "returned"

(***************************************************************************)
(* corinfo_GetInfo, the statements both variants share.                    *)
(***************************************************************************)
\* the caller calls corinfo_GetInfo(NULL) or corinfo_GetInfo(&info)
Call ==
  /\ pc = "idle"
  /\ calls < MaxCalls
  /\ \E t \in {"NULL", "info"} : target' = t
  /\ calls' = calls + 1
  /\ pc' = "check_null"
  /\ work' = <<>>
  /\ UNCHANGED <<host, info, cpu, i, offset, sys, mem, f, MHz, handles, ret>>

\* corinfo_GetInfo without the test of info
CheckNullOmitted ==
  /\ pc = "check_null"
  /\ pc' = "null_corinfo"
  /\ UNCHANGED <<host, calls, target, info, cpu, i, offset, sys, mem, f, MHz,
                 handles, ret, work>>

\* if (info == NULL) return -1;
CheckNull ==
  /\ pc = "check_null"
  /\ IF target = "NULL"
       THEN Return(-1)
       ELSE pc' = "null_corinfo" /\ ret' = ret
  /\ UNCHANGED <<host, calls, target, info, cpu, i, offset, sys, mem, f, MHz,
                 handles, work>>

\* __null_corinfo(info); followed by the identification, before the memory query
NullCorinfoThenIdentification ==
  /\ pc = "null_corinfo"
  /\ info' = null_corinfo(info)
  /\ Did("__null_corinfo", 0)
  /\ pc' = "cpuid"
  /\ UNCHANGED <<host, calls, target, cpu, i, offset, sys, mem, f, MHz, handles, ret>>

\* __null_corinfo(info);
NullCorinfo ==
  /\ pc = "null_corinfo"
  /\ info' = null_corinfo(info)
  /\ Did("__null_corinfo", 0)
  /\ pc' = IF platform = "linux" THEN "sysinfo" ELSE "GetSystemInfo"
  /\ UNCHANGED <<host, calls, target, cpu, i, offset, sys, mem, f, MHz, handles, ret>>

\* __cpuid(cpu, 0x00000000);
CpuidVendor ==
  /\ pc = "cpuid"
  /\ cpu' = cpuid(CPUID_VENDOR)
  /\ Did("__cpuid", CPUID_VENDOR)
  /\ pc' = "vendor_string"
  /\ UNCHANGED <<host, calls, target, info, i, offset, sys, mem, f, MHz, handles, ret>>

\* __vendor_string(cpu, info->VendorString);
VendorString ==
  /\ pc = "vendor_string"
  /\ info' = [info EXCEPT !.VendorString = vendor_string(cpu, @)]
  /\ Did("__vendor_string", 0)
  /\ i' = 0
  /\ offset' = 0
  /\ pc' = "brand_string"
  /\ UNCHANGED <<host, calls, target, cpu, sys, mem, f, MHz, handles, ret>>

\* __brand_string(cpu, info->BrandString): one turn of its outer loop, and
\* its return when i reaches 3
BrandString ==
  /\ pc = "brand_string"
  /\ IF i < 3
       THEN /\ cpu' = cpuid(commands[i + 1])
            /\ info' = [info EXCEPT !.BrandString = brand_block(cpu', @, offset)]
            /\ offset' = brand_next_offset(offset)
            /\ i' = i + 1
            /\ Did("__cpuid", commands[i + 1])
            /\ pc' = pc
       ELSE /\ Did("__brand_string", 0)
            /\ pc' = "extensions"
            /\ UNCHANGED <<cpu, info, offset, i>>
  /\ UNCHANGED <<host, calls, target, sys, mem, f, MHz, handles, ret>>

\* __extensions(cpu, info);
Extensions ==
  /\ pc = "extensions"
  /\ cpu' = cpuid(CPUID_FEATURES)
  /\ info' = extensions(cpu', info)
  /\ work' = work \o << <<"__cpuid", CPUID_FEATURES>>, <<"__extensions", 0>> >>
  /\ pc' = IF platform = "linux" THEN "fopen" ELSE "RegOpenKeyEx"
  /\ UNCHANGED <<host, calls, target, i, offset, sys, mem, f, MHz, handles, ret>>

\* the caller has the result; the locals of the call are gone
Returned ==
  /\ pc = "returned"
  /\ pc' = "idle"
  /\ cpu' = NoCpu
  /\ i' = 0
  /\ offset' = 0
  /\ sys' = NoSys
  /\ mem' = NoMem
  /\ f' = NoFile
  /\ MHz' = 0
  /\ UNCHANGED <<host, calls, target, info, handles, ret, work>>

(***************************************************************************)
(* corinfo_GetInfo, #ifdef __linux.                                        *)
(***************************************************************************)
\* struct sysinfo sys; if (sysinfo(&sys) == -1) return -1;
Sysinfo ==
  /\ pc = "sysinfo"
  /\ \/ /\ Did("sysinfo", -1)
        /\ Return(-1)
        /\ sys' = sys
     \/ /\ \E r \in SysinfoReports :
             sys' = [sys EXCEPT !.totalram = r.totalram, !.freeram = r.freeram]
        /\ Did("sysinfo", 0)
        /\ pc' = "cpuid"
        /\ ret' = ret
  /\ UNCHANGED <<host, calls, target, info, cpu, i, offset, mem, f, MHz, handles>>

\* FILE* f = fopen("/proc/cpuinfo", "rb"); if (f == NULL) return -1;
\* and the declaration size_t MHz; which leaves MHz with any value
Fopen ==
  /\ pc = "fopen"
  /\ \/ /\ Did("fopen", 0)
        /\ Return(-1)
        /\ UNCHANGED <<f, MHz, handles>>
     \/ /\ f' = [open |-> TRUE, line |-> 1]
        /\ handles' = handles + 1
        /\ MHz' \in UndefinedU32
        /\ Did("fopen", 1)
        /\ pc' = "getline"
        /\ ret' = ret
  /\ UNCHANGED <<host, calls, target, info, cpu, i, offset, sys, mem>>

\* one turn of while ((line_read = getline(&line, &line_length, f)) != -1)
Getline ==
  /\ pc = "getline"
  /\ IF f.line > Len(cpuinfo)
       THEN \* getline returns -1 at the end of the file
            /\ pc' = "fclose"
            /\ UNCHANGED <<f, MHz>>
       ELSE IF memcmp_marker(cpuinfo[f.line])
         THEN \* MHz = atoi(strchr(line, ':') + 2); break;
              /\ MHz' \in ParseMHz(cpuinfo[f.line])
              /\ f' = [f EXCEPT !.line = @ + 1]
              /\ pc' = "fclose"
         ELSE /\ f' = [f EXCEPT !.line = @ + 1]
              /\ pc' = pc
              /\ MHz' = MHz
  /\ Did("getline", f.line)
  /\ UNCHANGED <<host, calls, target, info, cpu, i, offset, sys, mem, handles, ret>>

\* if (line) free(line); fclose(f);
Fclose ==
  /\ pc = "fclose"
  /\ f' = NoFile
  /\ handles' = handles - 1
  /\ Did("fclose", 0)
  /\ pc' = "populate"
  /\ UNCHANGED <<host, calls, target, info, cpu, i, offset, sys, mem, MHz, ret>>

\* info->CpuCount = sysconf(_SC_NPROCESSORS_ONLN); ... return 0;
PopulateLinux ==
  /\ pc = "populate"
  /\ platform = "linux"
  /\ \E n \in NProcs :
       \E u \in RamUsageOf(KB32(sys.freeram), KB32(sys.totalram)) :
         info' = [info EXCEPT !.CpuCount = n,
                              !.CpuFrequency = MHz,
                              !.RamSize = KB32(sys.totalram),
                              !.RamFree = KB32(sys.freeram),
                              !.RamUsage = u]
  /\ Did("populate", 0)
  /\ Return(0)
  /\ UNCHANGED <<host, calls, target, cpu, i, offset, sys, mem, f, MHz, handles>>

(***************************************************************************)
(* corinfo_GetInfo, #ifdef _WIN32.                                         *)
(***************************************************************************)
\* SYSTEM_INFO sys; GetSystemInfo(&sys);
GetSystemInfo ==
  /\ pc = "GetSystemInfo"
  /\ \E n \in NProcs : sys' = [sys EXCEPT !.dwNumberOfProcessors = n]
  /\ Did("GetSystemInfo", 0)
  /\ pc' = "GlobalMemoryStatusEx"
  /\ UNCHANGED <<host, calls, target, info, cpu, i, offset, mem, f, MHz, handles, ret>>

\* MEMORYSTATUSEX mem; GlobalMemoryStatusEx(&mem); the result is not tested
GlobalMemoryStatusEx ==
  /\ pc = "GlobalMemoryStatusEx"
  /\ \/ /\ mem' \in MemoryStatusReports
        /\ Did("GlobalMemoryStatusEx", 1)
     \/ /\ mem' = UnwrittenMem
        /\ Did("GlobalMemoryStatusEx", 0)
  /\ pc' = "cpuid"
  /\ UNCHANGED <<host, calls, target, info, cpu, i, offset, sys, f, MHz, handles, ret>>

\* DWORD dwMHz = _MAX_PATH; long lError = RegOpenKeyEx(...);
\* if (lError != ERROR_SUCCESS) { FormatMessage(...); wprintf(Buffer); return 0; }
RegOpenKeyEx ==
  /\ pc = "RegOpenKeyEx"
  /\ MHz' = MAX_PATH
  /\ \E lError \in RegOpenResults :
       IF lError # ERROR_SUCCESS
         THEN /\ work' = work \o << <<"RegOpenKeyEx", lError>>,
                                    <<"FormatMessage", lError>>, <<"wprintf", 0>> >>
              /\ Return(0)
              /\ handles' = handles
         ELSE /\ Did("RegOpenKeyEx", lError)
              /\ handles' = handles + 1
              /\ pc' = "RegQueryValueEx"
              /\ ret' = ret
  /\ UNCHANGED <<host, calls, target, info, cpu, i, offset, sys, mem, f>>

\* RegQueryValueEx(hKey, L"~MHz", NULL, NULL, (LPBYTE)&dwMHz, &BufSize);
\* the result is not tested: on failure dwMHz keeps _MAX_PATH
RegQueryValueEx ==
  /\ pc = "RegQueryValueEx"
  /\ \/ /\ MHz' \in RegistryMHz
        /\ Did("RegQueryValueEx", 0)
     \/ /\ MHz' = MHz
        /\ Did("RegQueryValueEx", 2)
  /\ pc' = "populate"
  /\ UNCHANGED <<host, calls, target, info, cpu, i, offset, sys, mem, f, handles, ret>>

\* info->CpuCount = sys.dwNumberOfProcessors; ... return 0;
\* hKey is not closed
PopulateWin32 ==
  /\ pc = "populate"
  /\ platform = "win32"
  /\ info' = [info EXCEPT !.CpuCount = sys.dwNumberOfProcessors,
                          !.CpuFrequency = MHz,
                          !.RamSize = KB32(mem.ullTotalPhys),
                          !.RamFree = KB32(mem.ullAvailPhys),
                          !.RamUsage = mem.dwMemoryLoad]
  /\ Did("populate", 0)
  /\ Return(0)
  /\ UNCHANGED <<host, calls, target, cpu, i, offset, sys, mem, f, MHz, handles>>

(***************************************************************************)
(* The specification.                                                      *)
(***************************************************************************)
Next ==
  \/ Call
  \/ CheckNull
  \/ NullCorinfo
  \/ Sysinfo
  \/ GetSystemInfo
  \/ GlobalMemoryStatusEx
  \/ CpuidVendor
  \/ VendorString
  \/ BrandString
  \/ Extensions
  \/ Fopen
  \/ Getline
  \/ Fclose
  \/ PopulateLinux
  \/ RegOpenKeyEx
  \/ RegQueryValueEx
  \/ PopulateWin32
  \/ Returned

Spec == Init /\ [][Next]_vars

TypeOK ==
  /\ platform \in {"linux", "win32"}
  /\ target \in {"NULL", "info"}
  /\ calls \in 0..MaxCalls
  /\ handles \in 0..MaxCalls
  /\ ret \in {-1, 0}
  /\ Len(info.VendorString) = 12
  /\ Len(info.BrandString) = 48
  /\ \A k \in 1..12 : info.VendorString[k] \in 0..255
  /\ \A k \in 1..48 : info.BrandString[k] \in 0..255

(***************************************************************************)
(* Properties.                                                             *)
(***************************************************************************)
\* the call has done name
Done(name) == \E k \in 1..Len(work) : work[k][1] = name

\* the call has done name, which gave value
DoneWith(name, value) == \E k \in 1..Len(work) : work[k] = <<name, value>>

\* the names of what the call has done, in order
Names == [k \in 1..Len(work) |-> work[k][1]]

\* the input codes of the __cpuid calls made so far, in order
CpuidCodes ==
  LET c == SelectSeq(work, LAMBDA e : e[1] = "__cpuid")
  IN  [k \in 1..Len(c) |-> c[k][2]]

\* a struct corinfo with every field zero
NullInfo == null_corinfo(StaleInfo)

\* the vendor tag of the processor: ebx, edx, ecx of leaf 0, lowest byte first
ExpectedVendor ==
  LET a == processor[CPUID_VENDOR] IN a[2] \o a[4] \o a[3]

\* the brand string of the processor: eax, ebx, ecx, edx of the three leaves
ExpectedBrand ==
  LET b(n) == processor[commands[n]]
      blk(n) == b(n)[1] \o b(n)[2] \o b(n)[3] \o b(n)[4]
  IN  blk(1) \o blk(2) \o blk(3)

\* the seven flags are the seven bits of leaf 1
FlagsAreFeatureBits ==
  LET a == processor[CPUID_FEATURES]
  IN  /\ info.MMX   = Bit(a[4], 23)
      /\ info.SSE   = Bit(a[4], 25)
      /\ info.SSE2  = Bit(a[4], 26)
      /\ info.SSE3  = Bit(a[3], 0)
      /\ info.SSE41 = Bit(a[3], 19)
      /\ info.SSE42 = Bit(a[3], 20)
      /\ info.AVX   = Bit(a[3], 28)

Abs(x) == IF x < 0 THEN 0 - x ELSE x

\* C1: a call with a NULL target returns -1 from its first statement and does
\* nothing else: nothing is logged as done, the caller's struct, the handles
\* and the stream are as they were.
C1_NullTargetReturnsAtOnce ==
  [][ (pc = "check_null" /\ target = "NULL")
        => /\ pc' = "returned"
           /\ ret' = -1
           /\ work' = <<>>
           /\ info' = info
           /\ handles' = handles
           /\ f' = f /\ cpu' = cpu /\ sys' = sys /\ mem' = mem ]_vars

\* a call with a NULL target has returned -1, in the win32 variant, after an
\* earlier call
C1_Witness ==
  /\ pc = "returned"
  /\ target = "NULL"
  /\ ret = -1
  /\ work = <<>>
  /\ calls = 2
  /\ platform = "win32"

\* C2: a call with a non-NULL target that returns -1 leaves every field of
\* the target zero.
C2_FailureLeavesAllZero ==
  (pc = "returned" /\ target = "info" /\ ret = -1) => info = NullInfo

\* C3: when the frequency source cannot be opened (fopen gives NULL,
\* RegOpenKeyEx gives an error) the call returns -1, and a call that returns
\* 0 has had its core count, frequency and RAM fields written.
C3_OpenFailureReturnsFailure ==
  pc = "returned" =>
    /\ ( \/ DoneWith("fopen", 0)
         \/ \E e \in RegOpenResults \ {ERROR_SUCCESS} : DoneWith("RegOpenKeyEx", e) )
         => ret = -1
    /\ (target = "info" /\ ret = 0) => Done("populate")

\* C4: in the linux variant a successful call leaves RamUsage in 0..100 and
\* within 1 of 100 - 100 * RamFree / RamSize.
C4_RamUsageIsAPercentage ==
  (pc = "returned" /\ platform = "linux" /\ target = "info" /\ ret = 0) =>
    /\ info.RamUsage \in 0..100
    /\ LET g == GCD(info.RamSize, info.RamFree)
           size == IF g = 0 THEN 0 ELSE info.RamSize \div g
           free == IF g = 0 THEN 0 ELSE info.RamFree \div g
       IN  /\ size > 0
           /\ Abs(info.RamUsage * size - (100 * size - 100 * free)) <= size

\* C5: once __vendor_string has run, VendorString is the bytes of ebx, then
\* of edx, then of ecx of the answer to input code 0, lowest byte first, and
\* stays so while cpu[] is overwritten; "Genu", "ineI", "ntel" in ebx, edx,
\* ecx give "GenuineIntel".
C5_VendorString ==
  Done("__vendor_string") =>
    /\ info.VendorString = ExpectedVendor
    /\ ( /\ processor[CPUID_VENDOR][2] = <<71, 101, 110, 117>>
         /\ processor[CPUID_VENDOR][4] = <<105, 110, 101, 73>>
         /\ processor[CPUID_VENDOR][3] = <<110, 116, 101, 108>> )
         => info.VendorString = GenuineIntel

\* a successful call has returned "GenuineIntel" with cpu[] holding the
\* answer to input code 1, not the one the vendor string was decoded from
C5_Witness ==
  /\ pc = "returned"
  /\ ret = 0
  /\ Done("__vendor_string")
  /\ info.VendorString = GenuineIntel
  /\ cpu = cpuid(CPUID_FEATURES)
  /\ cpu # cpuid(CPUID_VENDOR)

\* C6: __brand_string makes exactly three __cpuid calls, with 0x80000002,
\* 0x80000003, 0x80000004 in that order; turn i writes the 16 bytes
\* 16*i .. 16*i + 15 and no others, byte 16*i + 4*r + j being byte j of
\* register r of the i-th answer; the bytes of later turns are still zero.
C6_BrandString ==
  /\ pc = "brand_string" =>
       /\ i \in 0..3
       /\ offset = 16 * i
       /\ Len(info.BrandString) = 48
       /\ CpuidCodes = <<CPUID_VENDOR>> \o SubSeq(commands, 1, i)
       /\ \A k \in 1..48 :
            info.BrandString[k] = IF k <= 16 * i THEN ExpectedBrand[k] ELSE 0
       /\ info.VendorString = ExpectedVendor
  /\ Done("__brand_string") =>
       /\ SubSeq(CpuidCodes, 1, 4) = <<CPUID_VENDOR>> \o commands
       /\ Len(info.BrandString) = 48
       /\ \A n \in 0..2, r \in 0..3, j \in 0..3 :
            info.BrandString[16 * n + 4 * r + j + 1]
              = processor[commands[n + 1]][r + 1][j + 1]

\* the brand string is complete, with bytes of negative registers in it
C6_Witness ==
  /\ pc = "extensions"
  /\ Done("__brand_string")
  /\ info.BrandString = [k \in 1..48 |-> 207 + k]
  /\ cpu = cpuid(commands[3])
  /\ cpu[1] < 0

\* C7: once __extensions has run, each flag is 0 or 1 and is one bit of the
\* answer to input code 1: MMX, SSE, SSE2 are bits 23, 25, 26 of edx and
\* SSE3, SSE4.1, SSE4.2, AVX are bits 0, 19, 20, 28 of ecx.
C7_Extensions == Done("__extensions") => FlagsAreFeatureBits

\* the answer has bit 28 of ecx alone: AVX is set and no other flag
C7_Witness ==
  /\ Done("__extensions")
  /\ processor[CPUID_FEATURES][3] = OneBit(28)
  /\ processor[CPUID_FEATURES][4] = ZeroReg
  /\ info.AVX = 1
  /\ <<info.MMX, info.SSE, info.SSE2, info.SSE3, info.SSE41, info.SSE42>>
       = <<0, 0, 0, 0, 0, 0>>

\* what a call does, in order, up to the opening of the frequency source
StepsLinux ==
  <<"__null_corinfo", "sysinfo", "__cpuid", "__vendor_string", "__cpuid",
    "__cpuid", "__cpuid", "__brand_string", "__cpuid", "__extensions", "fopen">>

StepsWin32 ==
  <<"__null_corinfo", "GetSystemInfo", "GlobalMemoryStatusEx", "__cpuid",
    "__vendor_string", "__cpuid", "__cpuid", "__cpuid", "__brand_string",
    "__cpuid", "__extensions", "RegOpenKeyEx">>

Steps == IF platform = "linux" THEN StepsLinux ELSE StepsWin32

\* name is done before other, whenever both are done
Before(name, other) ==
  \A k, h \in 1..Len(work) :
    (work[k][1] = name /\ work[h][1] = other) => k < h

\* C8 as stated: the identification comes before the memory query, and a call
\* that fails at the memory query returns -1 with the vendor string, the
\* brand string and the flags decoded.
C8_IdentificationBeforeMemoryQuery ==
  pc = "returned" =>
    /\ \A q \in {"sysinfo", "GetSystemInfo", "GlobalMemoryStatusEx"} :
         /\ Before("__null_corinfo", q)
         /\ Before("__extensions", q)
         /\ Done(q) => Done("__extensions")
    /\ DoneWith("sysinfo", -1) =>
         /\ ret = -1
         /\ info.VendorString = ExpectedVendor
         /\ info.BrandString = ExpectedBrand
         /\ FlagsAreFeatureBits

\* C8 amended: the order is NULL test, zeroing, memory query (sysinfo, or
\* GetSystemInfo and GlobalMemoryStatusEx), identification (vendor string,
\* brand string, flags), opening of the frequency source; a call that fails
\* at the memory query returns -1 before the identification, with every
\* field of the target zero.
C8_MemoryQueryBeforeIdentification ==
  /\ \A k \in 1..Len(work) : k <= Len(Steps) => Names[k] = Steps[k]
  /\ DoneWith("sysinfo", -1) =>
       /\ pc \in {"returned", "idle"}
       /\ ret = -1
       /\ Names = <<"__null_corinfo", "sysinfo">>
       /\ info = NullInfo

\* sysinfo has failed, on a processor whose vendor tag is not zero, and the
\* call has returned with the vendor string zero
C8_Witness ==
  /\ pc = "returned"
  /\ DoneWith("sysinfo", -1)
  /\ ret = -1
  /\ ExpectedVendor = GenuineIntel
  /\ info.VendorString = Zeros(12)

\* C9: between calls and on return the library holds no handle.
C9_NoHandleHeld == pc \in {"returned", "idle"} => handles = 0

\* the frequency of the first marker line of the contents, 0 without one
RECURSIVE FirstMarkerFrequency(_)
FirstMarkerFrequency(file) ==
  IF file = <<>> THEN 0
  ELSE IF Head(file) = MHzLine2400 THEN 2400
  ELSE IF Head(file) = MHzLine800 THEN 800
  ELSE FirstMarkerFrequency(Tail(file))

\* C10: in the linux variant, a call whose memory query succeeded and whose
\* /proc/cpuinfo opened returns 0 with CpuFrequency the number of the first
\* "cpu MHz" line, and 0 when there is no such line.
C10_FrequencyOfFirstMarkerLine ==
  (pc = "returned" /\ platform = "linux" /\ DoneWith("fopen", 1)) =>
    /\ ret = 0
    /\ info.CpuFrequency = FirstMarkerFrequency(cpuinfo)

====
